---- MODULE Spec2Model ----
(***************************************************************************)
(* Model of the page-object generator of MaxKravchuk/ENTH:                 *)
(*   - beautify_ruby_class (nonAiVersion.py), the merger of generated Ruby *)
(*     class fragments, as a step machine over its five numbered sections; *)
(*   - batch_html_by_tokens (nonAiVersion.py and AiVersion.py), the        *)
(*     chunker of the body's children.                                     *)
(* A text line is a record [ind, txt]: the number of leading blanks and    *)
(* the trimmed text.  str.strip() keeps txt and resets ind to 0; the       *)
(* regular expressions of the source all allow leading white space, so     *)
(* they are predicates over txt.                                           *)
(***************************************************************************)
EXTENDS Integers, Sequences, FiniteSets, TLC

\* ------------------------------------------------------------------ bounds
MaxLen == 4          \* longest free-form merge input, in lines
MaxFragments == 2    \* most generated fragments concatenated into one input
MaxChildren == 4     \* most direct children of the document body
MaxUnits == 3        \* largest whitespace-delimited unit count of one child
MaxLimit == 3        \* largest token_limit tried
MaxBatches == 3      \* most batches handed to the loop of main

\* ------------------------------------------------------------- text lines
L(t) == [ind |-> 0, txt |-> t]
LI(n, t) == [ind |-> n, txt |-> t]

strip(line) == [ind |-> 0, txt |-> line.txt]
Indent2(line) == [ind |-> line.ind + 2, txt |-> line.txt]

site_name == "A"
ClassTexts == {"class P", "class A"}
IncludeText == "include PageObject"
AccessorTexts == {"link(:a)", "link(:b)"}
DefTexts == {"def go", "def run"}
SeparatorLine == LI(6, "# ----- Merged from duplicate method definition -----")
LeftoverHeader == LI(2, "# leftover lines that did not belong to any recognized method or accessor")

startswith_class(stripped) == stripped.txt \in ClassTexts
include_re(stripped) == stripped.txt = IncludeText
accessor_pattern(stripped) == stripped.txt \in AccessorTexts
def_pattern(line) == line.txt \in DefTexts
def_group1(line) == IF line.txt = "def go" THEN "go" ELSE "run"
end_pattern(line) == line.txt = "end"

\* ------------------------------------------------------------ the state
VARIABLES
  pc,                    \* position in beautify_ruby_class
  lines,                 \* code.split("\n")
  idx,                   \* index of the loop that is running
  in_class,
  flattened_lines,
  fellBack,              \* line 171 was executed
  found_include_pageobject,
  accessors,
  lines_after_accessors,
  methods_extracted,     \* insertion-ordered dict: sequence of [name, blocks]
  leftover,
  in_method,
  current_method_name,   \* "" stands for None
  current_method_lines,
  merged_methods,
  final_lines,
  round,                 \* 1: first merge; 2: merge of the first merge's output
  prev,                  \* the first merge's result, kept for the re-merge
  cpc,                   \* position in batch_html_by_tokens
  children,              \* body.children after the parse
  token_limit,
  cidx,
  batches,
  current_batch,
  wrapped_batches,
  mpc,                   \* position in main
  bidx,                  \* idx of the loop of main (line 377)
  combined_pageobject,   \* its lines, each ended by "\n"
  sent                   \* the batches passed to send_to_azure_model so far

mvars == <<pc, lines, idx, in_class, flattened_lines, fellBack,
           found_include_pageobject, accessors, lines_after_accessors,
           methods_extracted, leftover, in_method, current_method_name,
           current_method_lines, merged_methods, final_lines, round, prev>>
cvars == <<cpc, children, token_limit, cidx, batches, current_batch,
           wrapped_batches>>
avars == <<mpc, bidx, combined_pageobject, sent>>
vars == <<mvars, cvars, avars>>


\* ------------------------------------------------------------- the inputs
\* Free-form input: any sequence of 1..MaxLen lines over the alphabet.
\* "".split("\n") is [""], so the input always has at least one line.  The
\* lines are those left by the line-ending normalisation of line 147.
Alphabet ==
  { L("class P"), L("end"), LI(2, "end"), L("def go"), L("def run"),
    L(IncludeText), L("link(:a)"), L("link(:b)"), L("click"), L("") }

FreeInputs(n) == [1..n -> Alphabet]

\* Fragment-shaped input: each generated fragment is one well-formed class
\* block (directive, accessors, terminated method definitions); the merge
\* input is the concatenation of the fragments.
RECURSIVE Flat(_)
Flat(ss) == IF ss = <<>> THEN <<>> ELSE Head(ss) \o Flat(Tail(ss))

Method(name, body) == <<L("def " \o name)>> \o body \o <<L("end")>>

FragmentDirectives == { <<>>, <<L(IncludeText)>> }
FragmentAccessors ==
  { <<>>, <<L("link(:a)")>>, <<L("link(:a)"), L("link(:a)")>>,
    <<L("link(:b)"), L("link(:a)")>> }
FragmentMethods ==
  { <<>>,
    Method("go", <<L("click")>>),
    Method("go", <<L("step1")>>) \o Method("go", <<L("step2")>>),
    Method("go", <<L("step1")>>) \o Method("run", <<L("step2")>>),
    Method("go", <<>>) \o <<L("click")>> }

Fragments ==
  { <<L("class P")>> \o d \o a \o m \o <<L("end")>> :
      d \in FragmentDirectives, a \in FragmentAccessors, m \in FragmentMethods }

\* main (line 381) ends every fragment with "\n", so the text read back has
\* an empty last line.
Combined(fs) == Flat(fs) \o <<L("")>>

\* Fragments that came without the class wrapper.
BareFragments ==
  { d \o a \o m :
      d \in FragmentDirectives, a \in FragmentAccessors, m \in FragmentMethods }


\* ------------------------------------------------------------------ Init
MergerStart(input) ==
  /\ pc = "flatten"
  /\ lines = input
  /\ idx = 1
  /\ in_class = 0
  /\ flattened_lines = <<>>
  /\ fellBack = FALSE
  /\ found_include_pageobject = FALSE
  /\ accessors = <<>>
  /\ lines_after_accessors = <<>>
  /\ methods_extracted = <<>>
  /\ leftover = <<>>
  /\ in_method = FALSE
  /\ current_method_name = ""
  /\ current_method_lines = <<>>
  /\ merged_methods = <<>>
  /\ final_lines = <<>>
  /\ round = 1
  /\ prev = <<>>

ChunkerIdle ==
  /\ cpc = "idle"
  /\ children = <<>>
  /\ token_limit = 0
  /\ cidx = 1
  /\ batches = <<>>
  /\ current_batch = <<>>
  /\ wrapped_batches = <<>>

MainIdle ==
  /\ mpc = "idle"
  /\ bidx = 1
  /\ combined_pageobject = <<>>
  /\ sent = <<>>

Init ==
  /\ \E n \in 1..MaxLen : \E input \in FreeInputs(n) : MergerStart(input)
  /\ ChunkerIdle
  /\ MainIdle

InitFragments ==
  /\ \E n \in 1..MaxFragments : \E fs \in [1..n -> Fragments] :
       MergerStart(Combined(fs))
  /\ ChunkerIdle
  /\ MainIdle

InitBare ==
  /\ \E n \in 1..MaxFragments : \E fs \in [1..n -> BareFragments] :
       MergerStart(Combined(fs))
  /\ ChunkerIdle
  /\ MainIdle

\* ------------------------------------------- 1) flatten the class blocks
\* FlattenLine with the `end` test made on the raw line, not on its trimmed
\* text.
FlattenLine_raw_end ==
  /\ pc = "flatten"
  /\ idx <= Len(lines)
  /\ LET line == lines[idx]
         stripped == strip(line)
     IN  IF startswith_class(stripped)
         THEN /\ in_class' = in_class + 1
              /\ UNCHANGED flattened_lines
         ELSE IF line = L("end")
         THEN /\ in_class' = IF in_class > 0 THEN in_class - 1 ELSE in_class
              /\ UNCHANGED flattened_lines
         ELSE /\ flattened_lines' =
                   IF in_class > 0 THEN Append(flattened_lines, line)
                                   ELSE flattened_lines
              /\ UNCHANGED in_class
  /\ idx' = idx + 1
  /\ UNCHANGED <<pc, lines, fellBack, found_include_pageobject, accessors,
                 lines_after_accessors, methods_extracted, leftover, in_method,
                 current_method_name, current_method_lines, merged_methods,
                 final_lines, round, prev, cvars, avars>>

\* FlattenLine with an `end` line taking one from the depth at depth 0 too.
FlattenLine_unguarded ==
  /\ pc = "flatten"
  /\ idx <= Len(lines)
  /\ LET line == lines[idx]
         stripped == strip(line)
     IN  IF startswith_class(stripped)
         THEN /\ in_class' = in_class + 1
              /\ UNCHANGED flattened_lines
         ELSE IF stripped = L("end")
         THEN /\ in_class' = in_class - 1
              /\ UNCHANGED flattened_lines
         ELSE /\ flattened_lines' =
                   IF in_class > 0 THEN Append(flattened_lines, line)
                                   ELSE flattened_lines
              /\ UNCHANGED in_class
  /\ idx' = idx + 1
  /\ UNCHANGED <<pc, lines, fellBack, found_include_pageobject, accessors,
                 lines_after_accessors, methods_extracted, leftover, in_method,
                 current_method_name, current_method_lines, merged_methods,
                 final_lines, round, prev, cvars, avars>>

\* One iteration of the loop of lines 155-167.
FlattenLine ==
  /\ pc = "flatten"
  /\ idx <= Len(lines)
  /\ LET line == lines[idx]
         stripped == strip(line)
     IN  IF startswith_class(stripped)
         THEN /\ in_class' = in_class + 1
              /\ UNCHANGED flattened_lines
         ELSE IF stripped = L("end")
         THEN /\ in_class' = IF in_class > 0 THEN in_class - 1 ELSE in_class
              /\ UNCHANGED flattened_lines
         ELSE /\ flattened_lines' =
                   IF in_class > 0 THEN Append(flattened_lines, line)
                                   ELSE flattened_lines
              /\ UNCHANGED in_class
  /\ idx' = idx + 1
  /\ UNCHANGED <<pc, lines, fellBack, found_include_pageobject, accessors,
                 lines_after_accessors, methods_extracted, leftover, in_method,
                 current_method_name, current_method_lines, merged_methods,
                 final_lines, round, prev, cvars, avars>>

\* Lines 170-171: the loop is over; fall back to the entire file when
\* nothing was flattened.
Fallback ==
  /\ pc = "flatten"
  /\ idx > Len(lines)
  /\ IF flattened_lines = <<>>
     THEN flattened_lines' = lines /\ fellBack' = TRUE
     ELSE UNCHANGED <<flattened_lines, fellBack>>
  /\ pc' = "includes"
  /\ UNCHANGED <<lines, idx, in_class, found_include_pageobject, accessors,
                 lines_after_accessors, methods_extracted, leftover, in_method,
                 current_method_name, current_method_lines, merged_methods,
                 final_lines, round, prev, cvars, avars>>


\* ----------------------------------------- 2) the include PageObject lines
IsInclude(line) == include_re(strip(line))
IsAccessor(line) == accessor_pattern(strip(line))

\* Lines 176-185, the whole loop.
ExtractIncludes ==
  /\ pc = "includes"
  /\ found_include_pageobject' =
       (Len(SelectSeq(flattened_lines, IsInclude)) > 0)
  /\ flattened_lines' = SelectSeq(flattened_lines, LAMBDA l : ~IsInclude(l))
  /\ pc' = "accessors"
  /\ UNCHANGED <<lines, idx, in_class, fellBack, accessors,
                 lines_after_accessors, methods_extracted, leftover, in_method,
                 current_method_name, current_method_lines, merged_methods,
                 final_lines, round, prev, cvars, avars>>

\* ------------------------------------------------------- 3) the accessors
Range(s) == { s[k] : k \in 1..Len(s) }

\* add_accessor without the seen_accessors test.
add_accessor_unseen(acc, line) == Append(acc, strip(line))

\* The body of the loop of lines 203-209 for one accessor line: acc is the
\* list so far (seen_accessors is the set of its elements).
add_accessor(acc, line) ==
  LET norm == strip(line)
  IN  IF norm \notin Range(acc) THEN Append(acc, norm) ELSE acc

RECURSIVE accessors_loop(_, _)
accessors_loop(ls, acc) ==
  IF ls = <<>> THEN acc
  ELSE accessors_loop(Tail(ls),
         IF IsAccessor(Head(ls)) THEN add_accessor(acc, Head(ls)) ELSE acc)

\* ExtractAccessors with the accessor lines left in the stream.
ExtractAccessors_keep ==
  /\ pc = "accessors"
  /\ accessors' = accessors_loop(flattened_lines, <<>>)
  /\ lines_after_accessors' = flattened_lines
  /\ pc' = "scan"
  /\ idx' = 1
  /\ UNCHANGED <<lines, in_class, flattened_lines, fellBack,
                 found_include_pageobject, methods_extracted, leftover,
                 in_method, current_method_name, current_method_lines,
                 merged_methods, final_lines, round, prev, cvars, avars>>

\* Lines 200-211, the whole loop.
ExtractAccessors ==
  /\ pc = "accessors"
  /\ accessors' = accessors_loop(flattened_lines, <<>>)
  /\ lines_after_accessors' =
       SelectSeq(flattened_lines, LAMBDA l : ~IsAccessor(l))
  /\ pc' = "scan"
  /\ idx' = 1
  /\ UNCHANGED <<lines, in_class, flattened_lines, fellBack,
                 found_include_pageobject, methods_extracted, leftover,
                 in_method, current_method_name, current_method_lines,
                 merged_methods, final_lines, round, prev, cvars, avars>>

\* ------------------------------------------------ 4) the method scanner
Names(d) == { d[k].name : k \in 1..Len(d) }
KeyIndex(d, name) == CHOOSE k \in 1..Len(d) : d[k].name = name

\* dict_append with a new key put in front of the older keys.
dict_append_front(d, name, block) ==
  IF name \in { d[k].name : k \in 1..Len(d) }
  THEN [d EXCEPT ![CHOOSE k \in 1..Len(d) : d[k].name = name].blocks =
                    Append(@, block)]
  ELSE <<[name |-> name, blocks |-> <<block>>]>> \o d

\* methods_extracted[name].append(block), creating the key at the end of
\* the insertion-ordered dict when it is new.
dict_append(d, name, block) ==
  IF name \in Names(d)
  THEN [d EXCEPT ![KeyIndex(d, name)].blocks = Append(@, block)]
  ELSE Append(d, [name |-> name, blocks |-> <<block>>])

\* flush_method (lines 230-238): the dict it leaves.
flush_method(d, name, mlines) ==
  IF name # "" /\ mlines # <<>> THEN dict_append(d, name, mlines) ELSE d

\* One iteration of the loop of lines 240-262.
ScanLine ==
  /\ pc = "scan"
  /\ idx <= Len(lines_after_accessors)
  /\ LET line == lines_after_accessors[idx]
     IN  IF def_pattern(line) /\ ~in_method
         THEN /\ in_method' = TRUE
              /\ methods_extracted' =
                   flush_method(methods_extracted, current_method_name,
                                current_method_lines)
              /\ current_method_name' = def_group1(line)
              /\ current_method_lines' = <<line>>
              /\ UNCHANGED leftover
         ELSE IF in_method
         THEN IF end_pattern(line)
              THEN /\ methods_extracted' =
                        flush_method(methods_extracted, current_method_name,
                                     Append(current_method_lines, line))
                   /\ current_method_name' = ""
                   /\ current_method_lines' = <<>>
                   /\ in_method' = FALSE
                   /\ UNCHANGED leftover
              ELSE /\ current_method_lines' = Append(current_method_lines, line)
                   /\ UNCHANGED <<methods_extracted, current_method_name,
                                  in_method, leftover>>
         ELSE /\ leftover' = Append(leftover, line)
              /\ UNCHANGED <<methods_extracted, current_method_name,
                             current_method_lines, in_method>>
  /\ idx' = idx + 1
  /\ UNCHANGED <<pc, lines, in_class, flattened_lines, fellBack,
                 found_include_pageobject, accessors, lines_after_accessors,
                 merged_methods, final_lines, round, prev, cvars, avars>>

\* Lines 265-266: the input ended; a method still open is flushed.
ScanEnd ==
  /\ pc = "scan"
  /\ idx > Len(lines_after_accessors)
  /\ IF in_method /\ current_method_lines # <<>>
     THEN /\ methods_extracted' =
               flush_method(methods_extracted, current_method_name,
                            current_method_lines)
          /\ current_method_name' = ""
          /\ current_method_lines' = <<>>
     ELSE UNCHANGED <<methods_extracted, current_method_name,
                      current_method_lines>>
  /\ pc' = "merge"
  /\ UNCHANGED <<lines, idx, in_class, flattened_lines, fellBack,
                 found_include_pageobject, accessors, lines_after_accessors,
                 leftover, in_method, merged_methods, final_lines, round,
                 prev, cvars, avars>>

\* ------------------------------------------- unify the duplicate methods
\* block[1:-1]
Inner(block) == SubSeq(block, 2, Len(block) - 1)

\* The loop of lines 288-291 over blocks[1:].
RECURSIVE other_bodies(_)
other_bodies(bs) ==
  IF bs = <<>> THEN <<>>
  ELSE <<SeparatorLine>> \o Inner(Head(bs)) \o other_bodies(Tail(bs))

\* Lines 277-302 for one method name: the lines of the unified method.
final_method_lines(blocks) ==
  LET first_block == blocks[1]
      final_method_body == Inner(first_block) \o other_bodies(Tail(blocks))
  IN  IF Len(first_block) > 1
      THEN <<first_block[1]>> \o final_method_body
             \o <<first_block[Len(first_block)]>>
      ELSE <<first_block[1]>> \o final_method_body \o <<L("end")>>

\* Lines 272-302, the whole loop over methods_extracted.items().
MergeMethods ==
  /\ pc = "merge"
  /\ merged_methods' =
       [k \in 1..Len(methods_extracted) |->
          final_method_lines(methods_extracted[k].blocks)]
  /\ pc' = "assemble"
  /\ UNCHANGED <<lines, idx, in_class, flattened_lines, fellBack,
                 found_include_pageobject, accessors, lines_after_accessors,
                 methods_extracted, leftover, in_method, current_method_name,
                 current_method_lines, final_lines, round, prev, cvars, avars>>

\* ------------------------------------------------ 5) the final single class
IndentAll(ls) == [k \in 1..Len(ls) |-> Indent2(ls[k])]

\* Lines 320-324.
RECURSIVE method_section(_)
method_section(ms) ==
  IF ms = <<>> THEN <<>>
  ELSE IndentAll(Head(ms)) \o <<L("")>> \o method_section(Tail(ms))

\* Lines 327-331.
leftover_section(lo) ==
  LET leftover_stripped == SelectSeq(lo, LAMBDA ln : strip(ln).txt # "")
  IN  IF leftover_stripped # <<>>
      THEN <<LeftoverHeader>> \o
           [k \in 1..Len(leftover_stripped) |->
              Indent2(strip(leftover_stripped[k]))]
      ELSE <<>>

\* build_final_lines with the leftover section written before the methods.
build_final_lines_leftover_first(inc, acc, ms, lo) ==
  <<L("class " \o site_name), L("")>>
    \o (IF inc THEN <<LI(2, IncludeText), L("")>> ELSE <<>>)
    \o IndentAll(acc) \o <<L("")>>
    \o leftover_section(lo)
    \o method_section(ms)
    \o <<L("end")>>

\* build_final_lines with the directive line written whether or not one was
\* found.
build_final_lines_always_include(inc, acc, ms, lo) ==
  <<L("class " \o site_name), L("")>>
    \o <<LI(2, IncludeText), L("")>>
    \o IndentAll(acc) \o <<L("")>>
    \o method_section(ms)
    \o leftover_section(lo)
    \o <<L("end")>>

\* build_final_lines without the closing line of line 333.
build_final_lines_open(inc, acc, ms, lo) ==
  <<L("class " \o site_name), L("")>>
    \o (IF inc THEN <<LI(2, IncludeText), L("")>> ELSE <<>>)
    \o IndentAll(acc) \o <<L("")>>
    \o method_section(ms)
    \o leftover_section(lo)

\* Lines 307-335: the lines of the returned text.
build_final_lines(inc, acc, ms, lo) ==
  <<L("class " \o site_name), L("")>>
    \o (IF inc THEN <<LI(2, IncludeText), L("")>> ELSE <<>>)
    \o IndentAll(acc) \o <<L("")>>
    \o method_section(ms)
    \o leftover_section(lo)
    \o <<L("end")>>

Assemble ==
  /\ pc = "assemble"
  /\ final_lines' = build_final_lines(found_include_pageobject, accessors,
                                      merged_methods, leftover)
  /\ pc' = "done"
  /\ UNCHANGED <<lines, idx, in_class, flattened_lines, fellBack,
                 found_include_pageobject, accessors, lines_after_accessors,
                 methods_extracted, leftover, in_method, current_method_name,
                 current_method_lines, merged_methods, round, prev, cvars, avars>>

\* ================================================================ chunker
\* A text of the chunker is a sequence of pieces: NL (the "\n" the code
\* inserts), a child of the body printed by str(element).strip(), or one of
\* the two halves of the envelope.  Only NL is white space; the other pieces
\* begin and end with a non-blank character.
NL == [kind |-> "nl", id |-> 0, units |-> 0]
EnvelopeOpen == [kind |-> "open", id |-> 0, units |-> 1]    \* <html><head></head><body>
EnvelopeClose == [kind |-> "close", id |-> 0, units |-> 1]  \* </body></html>
ElemPiece(child) == [kind |-> "elem", id |-> child.id, units |-> child.units]

\* count_tokens (lines 43-48): len(text.split()).  Pieces that touch without
\* white space between them share one unit at the joint.
RECURSIVE count_from(_, _)
count_from(text, glued) ==
  IF text = <<>> THEN 0
  ELSE IF Head(text).kind = "nl" THEN count_from(Tail(text), FALSE)
  ELSE Head(text).units - (IF glued THEN 1 ELSE 0) + count_from(Tail(text), TRUE)

count_tokens(text) == count_from(text, FALSE)

\* The children a document may have: an element or text node of 1..MaxUnits
\* units, a white-space-only text node (0 units), or a <script> element.
ChildKinds ==
  { [units |-> u, script |-> FALSE] : u \in 0..MaxUnits }
    \cup { [units |-> 1, script |-> TRUE] }

\* The children get their position as identity.
Document(f) ==
  [k \in 1..Len(f) |-> [id |-> k, units |-> f[k].units, script |-> f[k].script]]

MergerIdle ==
  /\ pc = "idle"
  /\ lines = <<>>
  /\ idx = 1
  /\ in_class = 0
  /\ flattened_lines = <<>>
  /\ fellBack = FALSE
  /\ found_include_pageobject = FALSE
  /\ accessors = <<>>
  /\ lines_after_accessors = <<>>
  /\ methods_extracted = <<>>
  /\ leftover = <<>>
  /\ in_method = FALSE
  /\ current_method_name = ""
  /\ current_method_lines = <<>>
  /\ merged_methods = <<>>
  /\ final_lines = <<>>
  /\ round = 1
  /\ prev = <<>>

InitChunk ==
  /\ MergerIdle
  /\ MainIdle
  /\ cpc = "parse"
  /\ \E n \in 0..MaxChildren : \E f \in [1..n -> ChildKinds] :
       children = Document(f)
  /\ token_limit \in 0..MaxLimit
  /\ cidx = 1
  /\ batches = <<>>
  /\ current_batch = <<>>
  /\ wrapped_batches = <<>>

\* remove_script_tags (lines 36-40) on the children of the body.
remove_script_tags(cs) == SelectSeq(cs, LAMBDA c : ~c.script)

\* Lines 57-62.
ParseHtml ==
  /\ cpc = "parse"
  /\ children' = remove_script_tags(children)
  /\ cpc' = "loop"
  /\ UNCHANGED <<token_limit, cidx, batches, current_batch, wrapped_batches,
                 mvars, avars>>

\* batch_step with the pending batch flushed at an oversized child without
\* the test of line 75.
batch_step_flush_untested(bs, cur, child, limit) ==
  LET elem_str == <<ElemPiece(child)>>
      tokens_in_elem == count_tokens(elem_str)
  IN  IF tokens_in_elem > limit
      THEN [batches |-> Append(bs, cur) \o <<elem_str>>,
            current_batch |-> <<>>]
      ELSE IF count_tokens(cur) + tokens_in_elem <= limit
           THEN [batches |-> bs, current_batch |-> cur \o <<NL>> \o elem_str]
           ELSE [batches |-> Append(bs, cur), current_batch |-> elem_str]

\* batch_step with an oversized child joined to the pending batch before
\* the flush.
batch_step_join_oversized(bs, cur, child, limit) ==
  LET elem_str == <<ElemPiece(child)>>
      tokens_in_elem == count_tokens(elem_str)
  IN  IF tokens_in_elem > limit
      THEN [batches |-> Append(bs, cur \o <<NL>> \o elem_str),
            current_batch |-> <<>>]
      ELSE IF count_tokens(cur) + tokens_in_elem <= limit
           THEN [batches |-> bs, current_batch |-> cur \o <<NL>> \o elem_str]
           ELSE [batches |-> Append(bs, cur), current_batch |-> elem_str]

\* batch_step with the room test made on the current batch alone.
batch_step_no_room_test(bs, cur, child, limit) ==
  LET elem_str == <<ElemPiece(child)>>
      tokens_in_elem == count_tokens(elem_str)
  IN  IF tokens_in_elem > limit
      THEN [batches |-> (IF cur # <<>> THEN Append(bs, cur) ELSE bs)
                          \o <<elem_str>>,
            current_batch |-> <<>>]
      ELSE IF count_tokens(cur) <= limit
           THEN [batches |-> bs, current_batch |-> cur \o <<NL>> \o elem_str]
           ELSE [batches |-> Append(bs, cur), current_batch |-> elem_str]

\* batch_step with the pending batch dropped, not flushed, at an oversized
\* child.
batch_step_drop_pending(bs, cur, child, limit) ==
  LET elem_str == <<ElemPiece(child)>>
      tokens_in_elem == count_tokens(elem_str)
  IN  IF tokens_in_elem > limit
      THEN [batches |-> Append(bs, elem_str), current_batch |-> <<>>]
      ELSE IF count_tokens(cur) + tokens_in_elem <= limit
           THEN [batches |-> bs, current_batch |-> cur \o <<NL>> \o elem_str]
           ELSE [batches |-> Append(bs, cur), current_batch |-> elem_str]

\* The body of the loop of lines 65-84 for one non-blank child: the batches
\* and the current batch it leaves.
batch_step(bs, cur, child, limit) ==
  LET elem_str == <<ElemPiece(child)>>
      tokens_in_elem == count_tokens(elem_str)
  IN  IF tokens_in_elem > limit
      THEN [batches |-> (IF cur # <<>> THEN Append(bs, cur) ELSE bs)
                          \o <<elem_str>>,
            current_batch |-> <<>>]
      ELSE IF count_tokens(cur) + tokens_in_elem <= limit
           THEN [batches |-> bs, current_batch |-> cur \o <<NL>> \o elem_str]
           ELSE [batches |-> Append(bs, cur), current_batch |-> elem_str]

\* One iteration of the loop of lines 65-84.
BatchChild ==
  /\ cpc = "loop"
  /\ cidx <= Len(children)
  /\ LET child == children[cidx]
         r == batch_step(batches, current_batch, child, token_limit)
     IN  IF child.units = 0
         THEN UNCHANGED <<batches, current_batch>>
         ELSE /\ batches' = r.batches
              /\ current_batch' = r.current_batch
  /\ cidx' = cidx + 1
  /\ UNCHANGED <<cpc, children, token_limit, wrapped_batches, mvars, avars>>

\* Lines 86-87.
BatchRest ==
  /\ cpc = "loop"
  /\ cidx > Len(children)
  /\ batches' = IF current_batch # <<>> THEN Append(batches, current_batch)
                                        ELSE batches
  /\ cpc' = "wrap"
  /\ UNCHANGED <<children, token_limit, cidx, current_batch, wrapped_batches,
                 mvars, avars>>

\* Line 92.
wrap(batch) == <<EnvelopeOpen>> \o batch \o <<EnvelopeClose>>

\* Lines 90-95.
WrapBatches ==
  /\ cpc = "wrap"
  /\ wrapped_batches' = [k \in 1..Len(batches) |-> wrap(batches[k])]
  /\ cpc' = "done"
  /\ UNCHANGED <<children, token_limit, cidx, batches, current_batch, mvars, avars>>

NextChunk ==
  \/ ParseHtml
  \/ BatchChild
  \/ BatchRest
  \/ WrapBatches

SpecChunk == InitChunk /\ [][NextChunk]_vars

\* --------------------------------------------------- the specifications
Next ==
  \/ FlattenLine
  \/ Fallback
  \/ ExtractIncludes
  \/ ExtractAccessors
  \/ ScanLine
  \/ ScanEnd
  \/ MergeMethods
  \/ Assemble

\* beautify_ruby_class applied to the text it returned, with the same name:
\* "\n".join(final_lines).split("\n") gives final_lines back, no line
\* holding a line break.
Remerge ==
  /\ pc = "done"
  /\ round = 1
  /\ prev' = [accessors |-> accessors, merged_methods |-> merged_methods]
  /\ round' = 2
  /\ pc' = "flatten"
  /\ lines' = final_lines
  /\ idx' = 1
  /\ in_class' = 0
  /\ flattened_lines' = <<>>
  /\ fellBack' = FALSE
  /\ found_include_pageobject' = FALSE
  /\ accessors' = <<>>
  /\ lines_after_accessors' = <<>>
  /\ methods_extracted' = <<>>
  /\ leftover' = <<>>
  /\ in_method' = FALSE
  /\ current_method_name' = ""
  /\ current_method_lines' = <<>>
  /\ merged_methods' = <<>>
  /\ final_lines' = <<>>
  /\ UNCHANGED <<cvars, avars>>

NextRemerge ==
  \/ Next
  \/ Remerge

Spec == Init /\ [][Next]_vars

\* The function is synchronous and single-threaded: a statement that can
\* run does run.
SpecTotal == Init /\ [][Next]_vars /\ WF_vars(Next)

SpecRemerge == InitBare /\ [][NextRemerge]_vars

SpecFragments == InitFragments /\ [][Next]_vars

\* The merge of fragments that came without the class wrapper.
SpecBare == InitBare /\ [][Next]_vars

\* =================================================================== main
\* The state when batch_html_by_tokens has returned n chunks to main
\* (line 368): n children of one unit each, every one above a limit of 0.
ChunkerReturned(n) ==
  /\ cpc = "done"
  /\ children = Document([k \in 1..n |-> [units |-> 1, script |-> FALSE]])
  /\ token_limit = 0
  /\ cidx = n + 1
  /\ batches = [k \in 1..n |-> <<ElemPiece(children[k])>>]
  /\ current_batch = <<>>
  /\ wrapped_batches = [k \in 1..n |-> wrap(batches[k])]

\* main at line 376: the key is set, nothing is sent yet.
InitMain ==
  /\ MergerIdle
  /\ \E n \in 0..MaxBatches : ChunkerReturned(n)
  /\ mpc = "loop"
  /\ bidx = 1
  /\ combined_pageobject = <<>>
  /\ sent = <<>>

\* The "answer" texts of a response, as their lines; "" is one empty line.
Answers ==
  { <<L("")>>,
    <<L("link(:a)")>>,
    <<L("class P"), L("link(:b)"), L("end")>>,
    <<L("ruby"), L("def go"), L("end")>> }

\* What one call of send_to_azure_model can meet: a response with an answer,
\* an HTTP error status (urllib.error.HTTPError), no connection
\* (urllib.error.URLError), a body that is not JSON (json.JSONDecodeError).
Outcomes ==
  { [kind |-> "answer", answer |-> a] : a \in Answers }
    \cup { [kind |-> k, answer |-> <<>>] :
             k \in {"HTTPError", "URLError", "JSONDecodeError"} }

\* Lines 120-122: an answer that starts with "ruby" loses its first and its
\* last line (endswith("") is true of every text).
strip_fences(answer) ==
  IF answer[1] = L("ruby")
  THEN IF Inner(answer) = <<>> THEN <<L("")>> ELSE Inner(answer)
  ELSE answer

\* send_to_azure_model (lines 98-128): the text returned, or "raise" when
\* the exception is not the one caught at line 124.
send_to_azure_model(outcome) ==
  IF outcome.kind = "answer" THEN [raise |-> FALSE, text |-> strip_fences(outcome.answer)]
  ELSE IF outcome.kind = "HTTPError" THEN [raise |-> FALSE, text |-> <<L("")>>]
  ELSE [raise |-> TRUE, text |-> <<>>]

\* One iteration of the loop of lines 377-381.  An exception that leaves
\* send_to_azure_model leaves main too.
SendBatch ==
  /\ mpc = "loop"
  /\ bidx <= Len(wrapped_batches)
  /\ \E outcome \in Outcomes :
       LET pageobject == send_to_azure_model(outcome)
       IN  /\ sent' = Append(sent, [batch |-> wrapped_batches[bidx],
                                    outcome |-> outcome])
           /\ IF pageobject.raise
              THEN /\ mpc' = "raised"
                   /\ UNCHANGED <<bidx, combined_pageobject>>
              ELSE /\ combined_pageobject' =
                        combined_pageobject \o pageobject.text
                   /\ bidx' = bidx + 1
                   /\ UNCHANGED mpc
  /\ UNCHANGED <<mvars, cvars>>

\* Lines 383-392: the combined text is written, read back and handed to
\* beautify_ruby_class; split("\n") leaves an empty last line.
MainBeautify ==
  /\ mpc = "loop"
  /\ bidx > Len(wrapped_batches)
  /\ mpc' = "beautify"
  /\ pc' = "flatten"
  /\ lines' = combined_pageobject \o <<L("")>>
  /\ UNCHANGED <<idx, in_class, flattened_lines, fellBack,
                 found_include_pageobject, accessors, lines_after_accessors,
                 methods_extracted, leftover, in_method, current_method_name,
                 current_method_lines, merged_methods, final_lines, round,
                 prev, bidx, combined_pageobject, sent, cvars>>

NextMain ==
  \/ SendBatch
  \/ MainBeautify
  \/ Next

SpecMain == InitMain /\ [][NextMain]_vars



\* ============================================================ the claims
\* ----------------------------------------------------------- the chunker
ChunkElems(text) == SelectSeq(text, LAMBDA p : p.kind = "elem")
\* The text between the two halves of the envelope.
Content(wrapped) == SubSeq(wrapped, 2, Len(wrapped) - 1)
OversizedAlone(text) ==
  /\ Len(ChunkElems(text)) = 1
  /\ ChunkElems(text)[1].units > token_limit
NonBlankChildren == SelectSeq(children, LAMBDA c : c.units > 0)

\* C8 as stated: every returned chunk has a whitespace-delimited unit count
\* of at most token_limit, unless it is exactly one element whose own count
\* exceeds the limit.
C8_ReturnedChunkWithinLimit ==
  cpc = "done" =>
    \A k \in 1..Len(wrapped_batches) :
      \/ count_tokens(wrapped_batches[k]) <= token_limit
      \/ OversizedAlone(wrapped_batches[k])

\* C8 as amended: the content of every chunk (the newline-joined elements
\* inside the envelope) has a unit count of at most token_limit, unless the
\* chunk is exactly one element whose own count exceeds the limit; the
\* envelope adds at most one unit to the returned chunk.  The same bound
\* holds of the batch being accumulated.
C8_ChunkContentWithinLimit ==
  /\ count_tokens(current_batch) <= token_limit
  /\ \A k \in 1..Len(batches) :
       \/ count_tokens(batches[k]) <= token_limit
       \/ OversizedAlone(batches[k])
  /\ \A k \in 1..Len(wrapped_batches) :
       /\ \/ count_tokens(Content(wrapped_batches[k])) <= token_limit
          \/ OversizedAlone(wrapped_batches[k])
       /\ count_tokens(wrapped_batches[k])
            <= count_tokens(Content(wrapped_batches[k])) + 1

\* C8 witness: a finished run with a full chunk of two elements and an
\* oversized element alone in its chunk.
C8_Witness ==
  /\ cpc = "done"
  /\ \E k \in 1..Len(wrapped_batches) :
       /\ Len(ChunkElems(wrapped_batches[k])) = 2
       /\ count_tokens(Content(wrapped_batches[k])) = token_limit
  /\ \E k \in 1..Len(wrapped_batches) : OversizedAlone(wrapped_batches[k])

\* C9: the elements of the chunks, read in output order, are exactly the
\* non-blank children of the body in document order, each with its full
\* unit count.
C9_ChunksPartitionChildren ==
  cpc = "done" =>
    Flat([k \in 1..Len(wrapped_batches) |-> ChunkElems(wrapped_batches[k])])
      = [k \in 1..Len(NonBlankChildren) |-> ElemPiece(NonBlankChildren[k])]

\* C9 witness: a finished run over a blank child and three other children,
\* one of them oversized, that made at least two chunks.
C9_Witness ==
  /\ cpc = "done"
  /\ Len(wrapped_batches) >= 2
  /\ Len(NonBlankChildren) >= 3
  /\ Len(children) > Len(NonBlankChildren)
  /\ \E k \in 1..Len(children) : children[k].units > token_limit
  /\ \E k \in 1..Len(wrapped_batches) : Len(ChunkElems(wrapped_batches[k])) >= 2


\* ------------------------------------------------------------ the merger
\* The output between its first line and its last line.
OutputBody == SubSeq(final_lines, 2, Len(final_lines) - 1)
Trimmed(ls) == { strip(ls[k]) : k \in 1..Len(ls) }
HasMarker == \E k \in 1..Len(lines) : startswith_class(strip(lines[k]))
Count(ls, Test(_)) == Len(SelectSeq(ls, Test))
\* The least index at which a line with the trimmed text of l stands in ls
\* (Len(ls) + 1 if none does).
FirstIndex(ls, l) ==
  IF \E k \in 1..Len(ls) : strip(ls[k]) = strip(l)
  THEN CHOOSE k \in 1..Len(ls) :
         /\ strip(ls[k]) = strip(l)
         /\ \A m \in 1..(k - 1) : strip(ls[m]) # strip(l)
  ELSE Len(ls) + 1

\* The lines of the input inside a class block as Ruby nests them: `class`
\* and `def` open a construct, `end` closes the innermost open one.  The
\* result is the set of indexes of the lines that stand between a `class`
\* line and the `end` that closes that class, the two markers excluded.
RECURSIVE inside_block(_, _, _)
inside_block(ls, k, stack) ==
  IF k > Len(ls) THEN {}
  ELSE LET line == ls[k]
           in_block == \E m \in 1..Len(stack) : stack[m] = "class"
           here == IF in_block THEN {k} ELSE {}
       IN  IF startswith_class(strip(line))
           THEN inside_block(ls, k + 1, <<"class">> \o stack)
           ELSE IF def_pattern(line)
           THEN here \cup inside_block(ls, k + 1, <<"def">> \o stack)
           ELSE IF end_pattern(line)
           THEN IF stack = <<>> THEN inside_block(ls, k + 1, stack)
                ELSE (IF Head(stack) = "def" THEN here ELSE {})
                       \cup inside_block(ls, k + 1, Tail(stack))
           ELSE here \cup inside_block(ls, k + 1, stack)

\* C1: every non-blank, non-marker line inside a class block of the input
\* (the lines of a second or later method of the block included) appears in
\* the output.
C1_NoLineOfABlockIsLost ==
  pc = "done" =>
    \A k \in inside_block(lines, 1, <<>>) :
      lines[k].txt # "" => strip(lines[k]) \in Trimmed(OutputBody)

\* The terminated definitions of one method name in the input, in input
\* order: each is the `def` line, the lines up to the next `end` line, and
\* that `end` line.
RECURSIVE definitions_of(_, _, _)
definitions_of(ls, name, open) ==
  IF ls = <<>> THEN <<>>
  ELSE IF open = <<>>
       THEN IF def_pattern(Head(ls)) /\ def_group1(Head(ls)) = name
            THEN definitions_of(Tail(ls), name, <<Head(ls)>>)
            ELSE definitions_of(Tail(ls), name, <<>>)
       ELSE IF end_pattern(Head(ls))
            THEN <<Append(open, Head(ls))>> \o definitions_of(Tail(ls), name, <<>>)
            ELSE definitions_of(Tail(ls), name, Append(open, Head(ls)))

RECURSIVE separated_bodies(_)
separated_bodies(ds) ==
  IF ds = <<>> THEN <<>>
  ELSE <<SeparatorLine>> \o Inner(Head(ds)) \o separated_bodies(Tail(ds))

\* The one definition the merge rule prescribes for the definitions ds.
MergeRule(ds) ==
  <<ds[1][1]>> \o Inner(ds[1]) \o separated_bodies(Tail(ds))
    \o <<ds[1][Len(ds[1])]>>

MethodNames == {"go", "run"}

\* C2: a method name with N >= 1 terminated definitions in the input has
\* exactly one definition in the output: the first opening line, the first
\* inner lines, then separator and inner lines of each later definition,
\* then the first closing `end`.
C2_DuplicateMethodsMerge ==
  pc = "done" =>
    \A name \in MethodNames :
      LET ds == definitions_of(lines, name, <<>>)
      IN  ds # <<>> =>
            /\ \E k \in 1..Len(merged_methods) : merged_methods[k] = MergeRule(ds)
            /\ Count(final_lines,
                     LAMBDA l : def_pattern(l) /\ def_group1(l) = name) = 1

\* The body of a merged method: its lines after the opening line, without a
\* closing `end` line, trimmed, blank lines left out.
MethodBody(m) ==
  LET rest == Tail(m)
      cut == IF rest # <<>> /\ end_pattern(rest[Len(rest)])
             THEN SubSeq(rest, 1, Len(rest) - 1) ELSE rest
      kept == SelectSeq(cut, LAMBDA l : l.txt # "")
  IN  [k \in 1..Len(kept) |-> strip(kept[k])]
MethodsByName(ms) ==
  { [name |-> def_group1(ms[k][1]), body |-> MethodBody(ms[k])] : k \in 1..Len(ms) }

\* C3: merging the output of a merge again under the same name gives the
\* same accessor set, the same method names and, per method, the same body.
C3_RemergeIsIdempotent ==
  (pc = "done" /\ round = 2) =>
    /\ Range(accessors) = Range(prev.accessors)
    /\ MethodsByName(merged_methods) = MethodsByName(prev.merged_methods)

\* C4: the whole input is taken as block content exactly when it has no
\* `class` line, and then all of it is content; with a `class` line in the
\* input, no marker line becomes content.
C4_FallbackIffNoMarker ==
  pc = "includes" =>
    /\ fellBack <=> ~HasMarker
    /\ ~HasMarker => flattened_lines = lines
    /\ HasMarker =>
         \A k \in 1..Len(flattened_lines) :
           ~startswith_class(strip(flattened_lines[k]))

\* One block holding the directive, accessor lines and one terminated method.
OneMethodBlocks ==
  { <<L("class P"), L(IncludeText)>> \o a \o Method("go", <<L("click")>>)
      \o <<L("end"), L("")>> : a \in FragmentAccessors \ {<<>>} }

\* C5: for one block holding a directive, accessor lines and one terminated
\* method, the output has one directive line, each distinct accessor once,
\* and the method as a unit: opening line, inner lines, closing `end`.
C5_OneBlockOneMethod ==
  (pc = "done" /\ lines \in OneMethodBlocks) =>
    /\ Count(final_lines, IsInclude) = 1
    /\ \A a \in { l \in Range(lines) : IsAccessor(l) } :
         Count(final_lines, LAMBDA l : strip(l) = strip(a)) = 1
    /\ merged_methods = <<Method("go", <<L("click")>>)>>
    /\ \E j \in 1..(Len(final_lines) - 2) :
         SubSeq(final_lines, j, j + 2) = IndentAll(Method("go", <<L("click")>>))

EmittedAccessors == SelectSeq(final_lines, IsAccessor)

\* C6: the accessor lines of the output are pairwise different after
\* trimming, and every accessor line of the block content is among them.
C6_AccessorsDeduplicated ==
  pc = "done" =>
    /\ \A i, j \in 1..Len(EmittedAccessors) :
         i # j => strip(EmittedAccessors[i]) # strip(EmittedAccessors[j])
    /\ \A k \in 1..Len(flattened_lines) :
         IsAccessor(flattened_lines[k]) =>
           strip(flattened_lines[k]) \in Trimmed(EmittedAccessors)

\* C6 witness: the block content repeats an accessor line and holds a
\* second one; the merge is finished.
C6_Witness ==
  /\ pc = "done"
  /\ Count(flattened_lines, IsAccessor) >= 3
  /\ Len(EmittedAccessors) = 2

\* The opening lines of the merged methods, in output order.
EmittedNames == [k \in 1..Len(merged_methods) |-> def_group1(merged_methods[k][1])]
\* The index in ls of the first `def` line naming the method.
FirstDef(ls, name) ==
  IF \E k \in 1..Len(ls) : def_pattern(ls[k]) /\ def_group1(ls[k]) = name
  THEN CHOOSE k \in 1..Len(ls) :
         /\ def_pattern(ls[k]) /\ def_group1(ls[k]) = name
         /\ \A m \in 1..(k - 1) : ~(def_pattern(ls[m]) /\ def_group1(ls[m]) = name)
  ELSE Len(ls) + 1

\* C7 as stated: accessors are emitted in the order of their first
\* occurrence in the input, methods in the order in which their names first
\* appear in the input.
C7_OrderOfFirstOccurrenceInInput ==
  pc = "done" =>
    /\ \A i, j \in 1..Len(EmittedAccessors) :
         i < j => FirstIndex(lines, EmittedAccessors[i])
                    < FirstIndex(lines, EmittedAccessors[j])
    /\ \A i, j \in 1..Len(EmittedNames) :
         i < j => FirstDef(lines, EmittedNames[i]) < FirstDef(lines, EmittedNames[j])

\* The names the two-state scanner opens, in order: a `def` line met while
\* SCANNING opens a capture, an `end` line met while CAPTURING closes it.
RECURSIVE opened_names(_, _)
opened_names(ls, capturing) ==
  IF ls = <<>> THEN <<>>
  ELSE IF ~capturing /\ def_pattern(Head(ls))
       THEN <<def_group1(Head(ls))>> \o opened_names(Tail(ls), TRUE)
       ELSE opened_names(Tail(ls), capturing /\ ~end_pattern(Head(ls)))

RECURSIVE first_seen(_, _)
first_seen(ns, seen) ==
  IF ns = <<>> THEN <<>>
  ELSE IF Head(ns) \in seen THEN first_seen(Tail(ns), seen)
       ELSE <<Head(ns)>> \o first_seen(Tail(ns), seen \cup {Head(ns)})

\* C7 as amended: accessors are emitted in the order of their first
\* occurrence in the block content, methods in the order in which the scanner
\* first opens a capture of their name in that content.
C7_OrderOfFirstOccurrenceInContent ==
  pc = "done" =>
    /\ \A i, j \in 1..Len(EmittedAccessors) :
         i < j => FirstIndex(flattened_lines, EmittedAccessors[i])
                    < FirstIndex(flattened_lines, EmittedAccessors[j])
    /\ \A i \in 1..Len(EmittedAccessors) :
         FirstIndex(flattened_lines, EmittedAccessors[i]) <= Len(flattened_lines)
    /\ EmittedNames = first_seen(opened_names(lines_after_accessors, FALSE), {})

\* C7 witness: two methods were merged, `run` opened before `go`, and an
\* accessor was emitted.
C7_Witness ==
  /\ pc = "done"
  /\ EmittedNames = <<"run", "go">>
  /\ Len(EmittedAccessors) >= 1

\* C10: every run of the merge ends, no step indexes an empty list, and the
\* text returned starts with `class <site_name>` and ends with `end`.
C10_Total ==
  /\ [](pc = "merge" =>
          \A k \in 1..Len(methods_extracted) :
            /\ methods_extracted[k].blocks # <<>>
            /\ \A b \in 1..Len(methods_extracted[k].blocks) :
                 methods_extracted[k].blocks[b] # <<>>)
  /\ [](pc = "done" =>
          /\ Len(final_lines) >= 2
          /\ final_lines[1] = L("class A")
          /\ final_lines[Len(final_lines)] = L("end"))
  /\ <>(pc = "done")

\* C10 witness: the merge finished on input that left a class open and a
\* method unterminated.
C10_Witness ==
  /\ pc = "done"
  /\ in_class > 0
  /\ in_method
  /\ leftover # <<>>

\* ------------------------------------------------- directive, C11 and C19
\* The lines standing at a depth above 0 when `class` lines open a level and
\* `end` lines close one: the content of the class blocks of ls.
RECURSIVE depth_content(_, _)
depth_content(ls, depth) ==
  IF ls = <<>> THEN <<>>
  ELSE IF startswith_class(strip(Head(ls)))
       THEN depth_content(Tail(ls), depth + 1)
       ELSE IF strip(Head(ls)) = L("end")
       THEN depth_content(Tail(ls), IF depth > 0 THEN depth - 1 ELSE 0)
       ELSE (IF depth > 0 THEN <<Head(ls)>> ELSE <<>>)
              \o depth_content(Tail(ls), depth)

\* The block content handed to the directive extraction: the content of the
\* class blocks, or the whole input after a fallback.
BlockContent == IF fellBack THEN lines ELSE depth_content(lines, 0)

MethodLines == Flat(merged_methods)

\* C11: the output has exactly one `include PageObject` line when the block
\* content has one or more of them and none otherwise, and no such line is
\* left in a merged method or among the leftover lines.
C11_DirectiveAtMostOnce ==
  pc = "done" =>
    /\ Count(final_lines, IsInclude) =
         (IF Count(BlockContent, IsInclude) > 0 THEN 1 ELSE 0)
    /\ Count(MethodLines, IsInclude) = 0
    /\ Count(leftover, IsInclude) = 0

\* C11 witness: a finished merge of a content with two directive lines, one
\* of them after the opening line of a method, and one directive line out.
C11_Witness ==
  /\ pc = "done"
  /\ Count(BlockContent, IsInclude) >= 2
  /\ in_method
  /\ \E k \in 2..Len(BlockContent) :
       IsInclude(BlockContent[k]) /\ def_pattern(BlockContent[k - 1])
  /\ Count(final_lines, IsInclude) = 1

\* ------------------------------------------------------ the scanner, C12
\* The span of a capture still open when ls ends (<<>> if none is): open is
\* the capture so far, <<>> while the scanner is not capturing.
RECURSIVE open_span(_, _)
open_span(ls, open) ==
  IF ls = <<>> THEN open
  ELSE IF open = <<>>
       THEN open_span(Tail(ls), IF def_pattern(Head(ls)) THEN <<Head(ls)>>
                                                          ELSE <<>>)
       ELSE IF end_pattern(Head(ls)) THEN open_span(Tail(ls), <<>>)
            ELSE open_span(Tail(ls), Append(open, Head(ls)))

\* The merged method of a name (<<>> if the output has none).
MergedMethod(name) ==
  IF \E k \in 1..Len(merged_methods) : def_group1(merged_methods[k][1]) = name
  THEN merged_methods[CHOOSE k \in 1..Len(merged_methods) :
                        def_group1(merged_methods[k][1]) = name]
  ELSE <<>>

\* C12: when the input ends inside a capture, the partial span is filed as
\* the last block of its name, and every line of it (a first occurrence of
\* the name or a later one) is a line of the merged method of that name.
C12_UnterminatedCaptureKeepsLines ==
  LET span == open_span(lines_after_accessors, <<>>)
      name == def_group1(span[1])
  IN  (pc = "done" /\ span # <<>>) =>
        /\ name \in Names(methods_extracted)
        /\ LET blocks == methods_extracted[KeyIndex(methods_extracted, name)].blocks
           IN  blocks[Len(blocks)] = span
        /\ \A k \in 1..Len(span) : span[k] \in Range(MergedMethod(name))

\* ------------------------------------------------------ the scanner, C13
\* C13: a step of the scanner on a `def` line while it is not capturing
\* starts the capture of that name; while it is capturing, a line that is
\* exactly an unindented `end` ends the capture, and every other line (an
\* indented `end`, a further `def` line) is appended to the capture, which
\* goes on under the same name.
C13_ScannerTransitions ==
  [][(pc = "scan" /\ idx <= Len(lines_after_accessors)) =>
       LET line == lines_after_accessors[idx]
       IN  /\ (~in_method /\ def_pattern(line)) =>
                /\ in_method'
                /\ current_method_name' = def_group1(line)
                /\ current_method_lines' = <<line>>
           /\ (in_method /\ line = L("end")) => ~in_method'
           /\ (in_method /\ line # L("end")) =>
                /\ in_method'
                /\ current_method_name' = current_method_name
                /\ current_method_lines' = Append(current_method_lines, line)
    ]_vars

\* ---------------------------------------------------- the depth counter, C14
\* C14: the depth is never negative; a step of block extraction on a `class`
\* line adds one to it, on an `end` line takes one from it when it is above 0
\* and changes nothing otherwise, and on any other line leaves it alone; the
\* end of the input is accepted at any depth, and the content collected so
\* far (the lines met at a depth above 0) is what goes on.
C14_DepthCounter ==
  /\ [](in_class >= 0)
  /\ [](pc = "includes" /\ ~fellBack => flattened_lines = depth_content(lines, 0))
  /\ [][(pc = "flatten" /\ idx <= Len(lines)) =>
          LET stripped == strip(lines[idx])
          IN  /\ startswith_class(stripped) => in_class' = in_class + 1
              /\ (stripped = L("end") /\ in_class > 0) => in_class' = in_class - 1
              /\ (stripped = L("end") /\ in_class = 0) =>
                   in_class' = 0 /\ flattened_lines' = flattened_lines
              /\ (~startswith_class(stripped) /\ stripped # L("end")) =>
                   in_class' = in_class
       ]_vars
  /\ [][(pc = "flatten" /\ idx > Len(lines)) =>
          /\ pc' = "includes"
          /\ in_class' = in_class
          /\ flattened_lines # <<>> => flattened_lines' = flattened_lines
       ]_vars

\* C14 witness: the input began with an `end` line met at depth 0, and ended
\* at a depth above 0 with content collected.
C14_Witness ==
  /\ pc = "includes"
  /\ ~fellBack
  /\ strip(lines[1]) = L("end")
  /\ in_class > 0
  /\ flattened_lines # <<>>

\* ------------------------------------------------- oversized elements, C15
HasOversized(text) ==
  \E k \in 1..Len(text) : text[k].kind = "elem" /\ text[k].units > token_limit

\* C15: a step of the chunker on a child that alone counts more than
\* token_limit first emits the pending batch if it is not empty, then emits
\* the child as a batch of its own, and leaves the pending batch empty; in
\* the result a chunk with such a child holds that child and nothing else.
C15_OversizedElementAlone ==
  /\ [][(/\ cpc = "loop"
         /\ cidx <= Len(children)
         /\ children[cidx].units > 0
         /\ children[cidx].units > token_limit) =>
          /\ batches' =
               (IF current_batch # <<>> THEN Append(batches, current_batch)
                                        ELSE batches)
                 \o << <<ElemPiece(children[cidx])>> >>
          /\ current_batch' = <<>>
       ]_vars
  /\ [](\A k \in 1..Len(batches) :
          HasOversized(batches[k]) => Len(batches[k]) = 1)
  /\ [](\A k \in 1..Len(wrapped_batches) :
          HasOversized(wrapped_batches[k]) =>
            Len(Content(wrapped_batches[k])) = 1)

\* C15 witness: a finished run in which an oversized child stands alone in
\* a chunk between a chunk flushed before it and a chunk started after it.
C15_Witness ==
  /\ cpc = "done"
  /\ \E k \in 2..(Len(wrapped_batches) - 1) :
       /\ OversizedAlone(wrapped_batches[k])
       /\ ~HasOversized(wrapped_batches[k - 1])
       /\ ~HasOversized(wrapped_batches[k + 1])

\* ------------------------------------------------------ no empty chunk, C20
\* C20: every batch the chunker has emitted, and every chunk it returns,
\* holds at least one element; the chunks are at most as many as the
\* non-blank children of the body, and a body without children gives none.
C20_NoEmptyChunk ==
  /\ \A k \in 1..Len(batches) : Len(ChunkElems(batches[k])) >= 1
  /\ \A k \in 1..Len(wrapped_batches) :
       Len(ChunkElems(wrapped_batches[k])) >= 1
  /\ cpc = "done" =>
       /\ Len(wrapped_batches) = Len(batches)
       /\ Len(wrapped_batches) <= Len(NonBlankChildren)
       /\ children = <<>> => wrapped_batches = <<>>

\* C20 witness: a finished run that began with an oversized child, so that
\* the pending batch was empty when the next child came, overflowed later,
\* and made as many chunks as there are non-blank children.
C20_Witness ==
  /\ cpc = "done"
  /\ Len(children) > Len(NonBlankChildren)
  /\ Len(NonBlankChildren) >= 3
  /\ Len(wrapped_batches) = Len(NonBlankChildren)
  /\ OversizedAlone(wrapped_batches[1])
  /\ ~HasOversized(wrapped_batches[2])

\* ------------------------------------------------------ main's loop, C16
\* The fragment of a call by the rule of C16: the text returned for an
\* answer, the empty text for a call that failed in any way.
Fragment(call) ==
  IF call.outcome.kind = "answer" THEN send_to_azure_model(call.outcome).text
  ELSE <<L("")>>

\* C16: main sends the chunks once each, in chunk order; a call that fails,
\* in whatever way, leaves main in its loop and adds an empty fragment and
\* its newline; the text handed to the merge is the fragments of all the
\* chunks in order, each ended by a newline.
C16_FragmentAssembly ==
  /\ mpc # "raised"
  /\ \A k \in 1..Len(sent) : sent[k].batch = wrapped_batches[k]
  /\ combined_pageobject = Flat([k \in 1..Len(sent) |-> Fragment(sent[k])])
  /\ mpc = "beautify" =>
       /\ Len(sent) = Len(wrapped_batches)
       /\ lines = combined_pageobject \o <<L("")>>

\* ----------------------------------------------------- assembly order, C17
\* The lines the scanner meets outside every capture, in input order.
RECURSIVE outside_capture(_, _)
outside_capture(ls, capturing) ==
  IF ls = <<>> THEN <<>>
  ELSE IF capturing
       THEN outside_capture(Tail(ls), ~end_pattern(Head(ls)))
       ELSE IF def_pattern(Head(ls)) THEN outside_capture(Tail(ls), TRUE)
            ELSE <<Head(ls)>> \o outside_capture(Tail(ls), FALSE)

NonBlank(ls) == SelectSeq(ls, LAMBDA l : l.txt # "")

DirectiveSection ==
  IF Count(BlockContent, IsInclude) > 0 THEN <<LI(2, IncludeText)>> ELSE <<>>

\* The leftover section by the rule of C17: absent when every leftover line
\* is blank, else the header and the non-blank leftover lines, trimmed.
LeftoverSection ==
  LET nb == NonBlank(outside_capture(lines_after_accessors, FALSE))
  IN  IF nb = <<>> THEN <<>>
      ELSE <<LeftoverHeader>> \o [k \in 1..Len(nb) |-> LI(2, nb[k].txt)]

\* C17: between its first and its last line the output is, apart from the
\* empty separator lines, the directive line (if the content has one), then
\* the accessor lines, then the lines of the merged methods, then the
\* leftover section, which is there exactly when a leftover line is not
\* blank and lists the non-blank leftover lines, trimmed, in input order.
C17_AssemblyOrder ==
  pc = "done" =>
    /\ final_lines[1] = L("class " \o site_name)
    /\ final_lines[Len(final_lines)] = L("end")
    /\ SelectSeq(OutputBody, LAMBDA l : l # L(""))
         = DirectiveSection \o IndentAll(accessors) \o IndentAll(MethodLines)
             \o LeftoverSection
    /\ (LeftoverHeader \in Range(final_lines))
         <=> (\E k \in 1..Len(leftover) : leftover[k].txt # "")

\* C17 witness: an output with the directive line, an accessor, a merged
\* method and a leftover section, made from leftover lines of which one is
\* blank.
C17_Witness ==
  /\ pc = "done"
  /\ DirectiveSection # <<>>
  /\ accessors # <<>>
  /\ merged_methods # <<>>
  /\ LeftoverSection # <<>>
  /\ \E k \in 1..Len(leftover) : leftover[k].txt = ""

\* --------------------------------------------- content without `end`, C18
\* C18: when block extraction did not fall back, the content it hands on
\* has no line whose trimmed text is `end`, no later step puts one in, and
\* a capture the scanner has begun on that content is never ended by a line.
C18_NoEndInBlockContent ==
  /\ []((pc \notin {"idle", "flatten"} /\ ~fellBack) =>
          /\ Count(flattened_lines, LAMBDA l : strip(l) = L("end")) = 0
          /\ Count(lines_after_accessors, LAMBDA l : strip(l) = L("end")) = 0)
  /\ [][(pc = "scan" /\ ~fellBack /\ in_method) => in_method']_vars
  /\ []((pc = "done" /\ ~fellBack) => Len(merged_methods) <= 1)

\* C18 witness: a finished merge, without fallback, of an input with an
\* `end` line after the `def` line of its block: the capture was still open
\* when the content ended.
C18_Witness ==
  /\ pc = "done"
  /\ ~fellBack
  /\ in_method
  /\ \E j \in 1..Len(lines) : \E k \in (j + 1)..Len(lines) :
       def_pattern(lines[j]) /\ strip(lines[k]) = L("end")

\* ------------------------------------- extraction before capture, C19
\* The indexes of the lines of ls that stand after the opening line of a
\* capture and before the `end` line that closes it (or the end of ls).
RECURSIVE inside_span(_, _, _)
inside_span(ls, k, capturing) ==
  IF k > Len(ls) THEN {}
  ELSE IF capturing
       THEN IF end_pattern(ls[k]) THEN inside_span(ls, k + 1, FALSE)
            ELSE {k} \cup inside_span(ls, k + 1, TRUE)
       ELSE inside_span(ls, k + 1, def_pattern(ls[k]))

\* The line stands in the output before every `def` line.
BeforeMethods(line) ==
  \E j \in 1..Len(final_lines) :
    /\ final_lines[j] = line
    /\ \A i \in 1..j : ~def_pattern(final_lines[i])

\* C19: no merged method holds a directive or an accessor line; a directive
\* or accessor line of the block content that stands inside the span of a
\* method is given out in the directive or accessor section, before the
\* methods.
C19_ExtractionBeforeCapture ==
  pc = "done" =>
    /\ Count(MethodLines, LAMBDA l : IsInclude(l) \/ IsAccessor(l)) = 0
    /\ \A k \in inside_span(BlockContent, 1, FALSE) :
         /\ IsInclude(BlockContent[k]) => BeforeMethods(LI(2, IncludeText))
         /\ IsAccessor(BlockContent[k]) =>
              BeforeMethods(LI(2, BlockContent[k].txt))

\* C19 witness: a finished merge of a content with an accessor line and a
\* directive line inside the span of a method that was captured.
C19_Witness ==
  /\ pc = "done"
  /\ merged_methods # <<>>
  /\ \E k \in inside_span(BlockContent, 1, FALSE) : IsInclude(BlockContent[k])
  /\ \E k \in inside_span(BlockContent, 1, FALSE) : IsAccessor(BlockContent[k])

====
